---- MODULE Spec2Model ----
(***************************************************************************)
(* A model of src/visitor.rs of verusfmt: the registry-driven CST walk     *)
(* (VerusVisitor), its reconstruction rules, and the extraction rules      *)
(* layered on top of it (CoreVerusVisitor).                                *)
(*                                                                         *)
(* Text is a sequence of one-character strings, so that push / push_str is *)
(* sequence concatenation and two buffers are equal exactly when they are  *)
(* byte-identical.  The recursion of the visitor is unfolded into a stack  *)
(* of pending work: the children still to be visited, the text a rule      *)
(* appends after its children, and the return of each visit call.          *)
(***************************************************************************)
EXTENDS Integers, Sequences, FiniteSets, TLC

VARIABLES
    pairs,      \* the top-level Pairs handed to the current invocation
    run,        \* 0 before the first invocation, then 1, then 2
    variant,    \* what the second invocation is: "same", "base", "drop"
    first,      \* the accumulator the first invocation handed back
    handlers,   \* the handler map of the current invocation
    stack,      \* pending work of the current invocation (the call stack)
    program,    \* datum.program
    fn_map,     \* datum.fn_map
    fn_calls,   \* datum.fn_calls
    status,     \* "idle", "running", "done", "panicked"
    spans       \* per visited node (by path): buffer length at entry / return

vars == <<pairs, run, variant, first, handlers, stack, program, fn_map,
          fn_calls, status, spans>>

(***************************************************************************)
(* Bounds of the model.                                                    *)
(***************************************************************************)
MaxParams == 3
MaxArgs == 2
MaxItems == 2

(***************************************************************************)
(* Generic helpers.                                                        *)
(***************************************************************************)
SeqsUpTo(S, n) == UNION {[1..k -> S] : k \in 0..n}

RECURSIVE Flatten(_)
Flatten(ss) == IF ss = <<>> THEN <<>> ELSE Head(ss) \o Flatten(Tail(ss))

EmptyMap == [k \in {} |-> <<>>]

(***************************************************************************)
(* CST nodes: pest's Pair, seen through as_rule, as_str and into_inner.    *)
(* The slice of an interior node spans its children's slices and the       *)
(* structural text between them that the grammar keeps in no child.        *)
(***************************************************************************)
Leaf(kind, text) == [kind |-> kind, text |-> text, children |-> <<>>]

JoinText(kids, gap) ==
    Flatten([i \in 1..Len(kids) |->
                IF i = 1 THEN kids[i].text ELSE gap \o kids[i].text])

Node(kind, open, gap, close, kids) ==
    [kind |-> kind, text |-> open \o JoinText(kids, gap) \o close,
     children |-> kids]

Wrap(kind, kid) == Node(kind, <<>>, <<>>, <<>>, <<kid>>)

NoNode == Leaf("", <<>>)

(***************************************************************************)
(* The inputs: small CSTs over the kinds the visitor special-cases and a   *)
(* few kinds it does not.                                                  *)
(***************************************************************************)
BAR == <<"b", "a", "r">>
FOO == <<"f", "o", "o">>
GEE == <<"g">>
KAY == <<"k">>

CMT == Leaf("COMMENT", <<"/", "*", "c", "*", "/">>)

PA == Leaf("param", <<"a">>)
PB == Node("param", <<>>, <<":", " ">>, <<>>,
           <<Leaf("pattern", <<"b">>), Leaf("type", <<"u", "8">>)>>)

Tight == <<",">>
Loose == <<" ", ",", "\n", " ">>
Canon == <<",", " ">>

ParamList(gap, kids) == Node("param_list", <<"(">>, gap, <<")">>, kids)
ClosureParamList(gap, kids) ==
    Node("closure_param_list", <<"|">>, gap, <<"|">>, kids)
ArgList(gap, kids) == Node("arg_list", <<"(">>, gap, <<")">>, kids)
CommaList(gap, kids) ==
    Node("comma_delimited_exprs", <<>>, gap, <<",">>, kids)

PathExpr(name) == Wrap("expr_inner", Leaf("path_expr_no_generics", name))
Literal(text) == Wrap("expr_inner", Leaf("literal", text))

\* an expression without callee path and without argument list: 1
LIT1 == Wrap("expr", Leaf("literal", <<"1">>))
\* an expression with a callee path and no argument list: x
VARX == Node("expr", <<>>, <<>>, <<>>, <<PathExpr(<<"x">>)>>)
\* an expression with an argument list and no callee path: 1(x)
NOPATH == Node("expr", <<>>, <<>>, <<>>,
               <<Literal(<<"1">>), ArgList(Tight, <<VARX>>)>>)
\* an expression with no children at all
EXPRLEAF == Leaf("expr", <<"y">>)

Call(name, gap, args) ==
    Node("expr", <<>>, <<>>, <<>>, <<PathExpr(name), ArgList(gap, args)>>)

\* bar(1)
INNER == Call(BAR, Tight, <<LIT1>>)
\* g(x,1,) with the arguments under a comma-delimited list
GCALL == Node("expr", <<>>, <<>>, <<>>,
              <<PathExpr(GEE),
                Node("arg_list", <<"(">>, <<>>, <<")">>,
                     <<CommaList(Tight, <<VARX, LIT1>>)>>)>>)

ParamItems == {PA, PB, CMT}
ClosureItems == {PA, CMT}
ArgItems == {LIT1, VARX, CMT, INNER}
ClauseItems == {VARX, CMT, GCALL}

ParamLists ==
    {ParamList(g, s) : g \in {Tight, Loose}, s \in SeqsUpTo(ParamItems, MaxParams)}
ClosureLists ==
    {ClosureParamList(Loose, s) : s \in SeqsUpTo(ClosureItems, MaxParams)}
ArgLists == {ArgList(Loose, s) : s \in SeqsUpTo(ArgItems, MaxArgs)}
Calls == {Call(BAR, Canon, s) : s \in SeqsUpTo(ArgItems, MaxArgs)}
CommaLists == {CommaList(Loose, s) : s \in SeqsUpTo(ClauseItems, MaxArgs)}

FnStr == Leaf("fn_str", <<"f", "n">>)
Name(text) == Leaf("name", text)
Block(stmts) ==
    Node("fn_block_expr", <<"{", " ">>, <<";", " ">>, <<" ", "}">>, stmts)
Fn(kids) == Node("fn", <<>>, <<" ">>, <<>>, kids)
Requires(kids) ==
    Node("requires_clause", <<>>, <<" ">>, <<>>,
         <<Leaf("requires_str", <<"r", "e", "q">>), CommaList(Canon, kids)>>)

\* fn foo (a,b: u8) { bar(1, x) }
FOO1 == Fn(<<FnStr, Name(FOO), ParamList(Tight, <<PA, PB>>),
             Block(<<Call(BAR, Canon, <<LIT1, VARX>>)>>)>>)
\* fn foo () { bar(x, bar(1), x); g(x,1,) }   -- a second definition of foo
FOO2 == Fn(<<FnStr, Name(FOO), ParamList(Tight, <<>>),
             Block(<<Call(BAR, Canon, <<VARX, INNER, VARX>>), GCALL>>)>>)
\* fn (a) { bar(1) }   -- a definition without a name child
ANON == Fn(<<FnStr, ParamList(Tight, <<PA>>), Block(<<INNER>>)>>)
\* fn k (a) req x, 1(x), { |a| ; y }
KFN == Fn(<<FnStr, Name(KAY), ParamList(Loose, <<PA>>),
            Requires(<<VARX, NOPATH>>),
            Block(<<ClosureParamList(Tight, <<PA>>), EXPRLEAF>>)>>)
\* fn foo () { fn foo (a) { 1 } }   -- a definition of foo nested in another
NEST == Fn(<<FnStr, Name(FOO), ParamList(Tight, <<>>),
             Block(<<Fn(<<FnStr, Name(FOO), ParamList(Tight, <<PA>>),
                          Block(<<LIT1>>)>>)>>)>>)

FileItems == {FOO1, FOO2, ANON, KFN, NEST}
MacroUse(items) ==
    Node("verus_macro_use", <<"v", "e", "r", "u", "s", "!", " ", "{">>,
         <<"\n">>, <<"}">>, items)
Files == {MacroUse(s) : s \in SeqsUpTo(FileItems, MaxItems)}

\* let  w  =  1   -- a statement of kinds without a rule, nested two deep
LETW == Node("let_stmt", <<>>, <<" ", " ">>, <<>>,
             <<Leaf("let_str", <<"l", "e", "t">>),
               Wrap("pattern", Wrap("ident_pat", Leaf("ident", <<"w">>))),
               Leaf("eq_str", <<"=">>),
               Leaf("literal", <<"1">>)>>)
\* fn k () { let  w  =  1 }
LETFN == Fn(<<FnStr, Name(KAY), ParamList(Tight, <<>>), Block(<<LETW>>)>>)

Inputs ==
    {<<r>> : r \in ParamLists \cup ClosureLists \cup ArgLists \cup Calls
                   \cup CommaLists \cup Files}
    \cup {<<ANON, FOO1>>, <<CMT, KFN>>, <<MacroUse(<<FOO1, ANON, FOO2>>)>>}
    \cup {<<LETW>>, <<MacroUse(<<LETFN>>)>>}

(***************************************************************************)
(* HandlerMap: the registry from rule name to handler.                     *)
(***************************************************************************)
HandlerMapNew ==
    ("verus_macro_use" :> "VerusVisitor::visit_verus_macro_use")
    @@ ("param_list" :> "VerusVisitor::visit_param_list")
    @@ ("fn_block_expr" :> "VerusVisitor::visit_fn_block_expr")
    @@ ("closure_param_list" :> "VerusVisitor::visit_closure_param_list")
    @@ ("comma_delimited_exprs" :> "VerusVisitor::visit_comma_delimited_exprs")
    @@ ("arg_list" :> "VerusVisitor::visit_arg_list")
    @@ ("COMMENT" :> "VerusVisitor::visit_comment")

insert(map, key, handler) ==
    [k \in DOMAIN map \cup {key} |-> IF k = key THEN handler ELSE map[k]]

get_handler(map, rule) == IF rule \in DOMAIN map THEN map[rule] ELSE "None"

create_combined_handler_map ==
    insert(insert(insert(HandlerMapNew,
                         "fn", "CoreVerusVisitor::visit_function"),
                  "expr", "CoreVerusVisitor::visit_expr"),
           "verus_macro_use", "CoreVerusVisitor::visit_verus_macro_use")

(***************************************************************************)
(* CoreDatum, empty as its caller constructs it.                           *)
(***************************************************************************)
EmptyDatum == [program |-> <<>>, fn_map |-> EmptyMap, fn_calls |-> EmptyMap]

(***************************************************************************)
(* The pending work of a traversal.                                        *)
(***************************************************************************)
VisitItem(node, path) ==
    [op |-> "visit", node |-> node, path |-> path, text |-> <<>>, from |-> 0]
EmitItem(text) ==
    [op |-> "emit", node |-> NoNode, path |-> <<>>, text |-> text, from |-> 0]
RetItem(path, from) ==
    [op |-> "ret", node |-> NoNode, path |-> path, text |-> <<>>, from |-> from]

\* visit_all: one visit per pair, in the order of the pairs
VisitAllItems(kids, path) ==
    [i \in 1..Len(kids) |-> VisitItem(kids[i], path \o <<i>>)]

Top == Head(stack)

\* visit: the handler registered for the node's rule name, else default_visit
Visit(handler) ==
    /\ status = "running"
    /\ stack # <<>>
    /\ Top.op = "visit"
    /\ handler = LET h == get_handler(handlers, Top.node.kind)
                 IN  IF h = "None" THEN "VerusVisitor::default_visit" ELSE h

\* a handler appends `prefix` and leaves `items` to be done before it returns
Enter(prefix, items) ==
    /\ program' = program \o prefix
    /\ stack' = items \o <<RetItem(Top.path, Len(program))>> \o Tail(stack)
    /\ spans' = spans @@ (Top.path :> [from |-> Len(program), to |-> -1])

Init ==
    /\ pairs \in Inputs
    /\ run = 0
    /\ variant = "none"
    /\ first = [pairs |-> <<>>, program |-> <<>>, fn_map |-> EmptyMap,
                fn_calls |-> EmptyMap]
    /\ handlers = EmptyMap
    /\ stack = <<>>
    /\ program = <<>>
    /\ fn_map = EmptyMap
    /\ fn_calls = EmptyMap
    /\ status = "idle"
    /\ spans = EmptyMap


(***************************************************************************)
(* Option values and the iterator searches of the extraction rules.        *)
(***************************************************************************)
None == [some |-> FALSE, val |-> NoNode]
Some(v) == [some |-> TRUE, val |-> v]

\* Iterator::find(|p| p.as_rule() == kind): the first pair of that rule
Find(kids, kind) ==
    LET hits == {i \in 1..Len(kids) : kids[i].kind = kind}
    IN  IF hits = {} THEN None
        ELSE Some(kids[CHOOSE i \in hits : \A j \in hits : i <= j])

Frame == <<pairs, run, variant, first, handlers>>

(***************************************************************************)
(* VerusVisitor: the default rule and the reconstruction rules.            *)
(***************************************************************************)
\* a default rule that passes a leaf through without the separating space
DefaultVisitEffect_noSpace ==
    IF Len(Top.node.children) = 0
    THEN Enter(Top.node.text, <<>>)
    ELSE Enter(<<>>, VisitAllItems(Top.node.children, Top.path))

DefaultVisitEffect ==
    IF Len(Top.node.children) = 0
    THEN Enter(Top.node.text \o <<" ">>, <<>>)
    ELSE Enter(<<>>, VisitAllItems(Top.node.children, Top.path))

DefaultVisit ==
    /\ Visit("VerusVisitor::default_visit")
    /\ DefaultVisitEffect
    /\ UNCHANGED <<fn_map, fn_calls, status>>
    /\ UNCHANGED Frame

MacroUseEffect ==
    Enter(<<"v", "e", "r", "u", "s", "!", "{", "\n">>,
          VisitAllItems(Top.node.children, Top.path)
              \o <<EmitItem(<<"}", "\n">>)>>)

VisitVerusMacroUse ==
    /\ Visit("VerusVisitor::visit_verus_macro_use")
    /\ MacroUseEffect
    /\ UNCHANGED <<fn_map, fn_calls, status>>
    /\ UNCHANGED Frame

\* the loop of visit_param_list / visit_closure_param_list from pair i on
RECURSIVE PushRaw(_, _, _)
PushRaw(kids, i, isFirst) ==
    IF i > Len(kids) THEN <<>>
    ELSE (IF ~isFirst THEN <<",", " ">> ELSE <<>>)
         \o kids[i].text \o PushRaw(kids, i + 1, FALSE)

\* a parameter list that separates with ", " after every child
VisitParamList_trailing ==
    /\ Visit("VerusVisitor::visit_param_list")
    /\ Enter(<<"(">> \o Flatten([i \in 1..Len(Top.node.children) |->
                          Top.node.children[i].text \o <<",", " ">>])
                  \o <<")">>, <<>>)
    /\ UNCHANGED <<fn_map, fn_calls, status>>
    /\ UNCHANGED Frame

VisitParamList ==
    /\ Visit("VerusVisitor::visit_param_list")
    /\ Enter(<<"(">> \o PushRaw(Top.node.children, 1, TRUE) \o <<")">>, <<>>)
    /\ UNCHANGED <<fn_map, fn_calls, status>>
    /\ UNCHANGED Frame

VisitFnBlockExpr ==
    /\ Visit("VerusVisitor::visit_fn_block_expr")
    /\ Enter(<<"\n", " ", "{">>,
             VisitAllItems(Top.node.children, Top.path)
                 \o <<EmitItem(<<"\n", " ", "}", " ", "\n">>)>>)
    /\ UNCHANGED <<fn_map, fn_calls, status>>
    /\ UNCHANGED Frame

VisitClosureParamList ==
    /\ Visit("VerusVisitor::visit_closure_param_list")
    /\ Enter(<<"|">> \o PushRaw(Top.node.children, 1, TRUE) \o <<"|">>, <<>>)
    /\ UNCHANGED <<fn_map, fn_calls, status>>
    /\ UNCHANGED Frame

\* a comma-delimited list that separates only between its children
CommaItems_between(kids, path) ==
    [j \in 1..(IF kids = <<>> THEN 0 ELSE 2 * Len(kids) - 1) |->
        IF j % 2 = 1
        THEN VisitItem(kids[(j + 1) \div 2], path \o <<(j + 1) \div 2>>)
        ELSE EmitItem(<<",", " ">>)]

\* for each pair: visit it, then push ", "
CommaItems(kids, path) ==
    [j \in 1..(2 * Len(kids)) |->
        IF j % 2 = 1
        THEN VisitItem(kids[(j + 1) \div 2], path \o <<(j + 1) \div 2>>)
        ELSE EmitItem(<<",", " ">>)]

VisitCommaDelimitedExprs ==
    /\ Visit("VerusVisitor::visit_comma_delimited_exprs")
    /\ Enter(<<>>, CommaItems(Top.node.children, Top.path))
    /\ UNCHANGED <<fn_map, fn_calls, status>>
    /\ UNCHANGED Frame

\* an argument list that is never closed
VisitArgList_noClose ==
    /\ Visit("VerusVisitor::visit_arg_list")
    /\ Enter(<<"(">>, VisitAllItems(Top.node.children, Top.path))
    /\ UNCHANGED <<fn_map, fn_calls, status>>
    /\ UNCHANGED Frame

VisitArgList ==
    /\ Visit("VerusVisitor::visit_arg_list")
    /\ Enter(<<"(">>,
             VisitAllItems(Top.node.children, Top.path) \o <<EmitItem(<<")">>)>>)
    /\ UNCHANGED <<fn_map, fn_calls, status>>
    /\ UNCHANGED Frame

VisitComment ==
    /\ Visit("VerusVisitor::visit_comment")
    /\ Enter(<<>>, <<>>)
    /\ UNCHANGED <<fn_map, fn_calls, status>>
    /\ UNCHANGED Frame

(***************************************************************************)
(* CoreVerusVisitor: the extraction rules.                                 *)
(***************************************************************************)
\* a function table that keeps the first definition of a name
RecordFunction_keepFirst(map, name, text) ==
    IF name \in DOMAIN map THEN map ELSE insert(map, name, text)

\* datum.fn_map.insert(name, text)
RecordFunction(map, name, text) == insert(map, name, text)

\* a function rule that skips the recording of a definition without a name
VisitFunction_skipNameless ==
    /\ Visit("CoreVerusVisitor::visit_function")
    /\ LET name == Find(Top.node.children, "name")
       IN  fn_map' = IF name.some
                     THEN RecordFunction(fn_map, name.val.text, Top.node.text)
                     ELSE fn_map
    /\ Enter(<<>>, VisitAllItems(Top.node.children, Top.path))
    /\ UNCHANGED <<fn_calls, status>>
    /\ UNCHANGED Frame

VisitFunction ==
    /\ Visit("CoreVerusVisitor::visit_function")
    /\ LET name == Find(Top.node.children, "name")
       IN  IF ~name.some
           THEN \* expect("Function must have a name") panics
                /\ status' = "panicked"
                /\ spans' = spans @@ (Top.path :> [from |-> Len(program),
                                                   to |-> -1])
                /\ UNCHANGED <<stack, program, fn_map, fn_calls>>
           ELSE /\ fn_map' = RecordFunction(fn_map, name.val.text, Top.node.text)
                /\ Enter(<<>>, VisitAllItems(Top.node.children, Top.path))
                /\ UNCHANGED <<fn_calls, status>>
    /\ UNCHANGED Frame

\* the while loop of visit_expr from pair i on
RECURSIVE ScanExpr(_, _, _)
ScanExpr(kids, i, acc) ==
    IF i > Len(kids) THEN acc
    ELSE LET k == kids[i]
             f == Find(k.children, "path_expr_no_generics")
         IN  ScanExpr(kids, i + 1,
                 IF k.kind = "expr_inner"
                 THEN IF f.some
                      THEN [acc EXCEPT !.function_name = Some(f.val.text)]
                      ELSE acc
                 ELSE IF k.kind = "arg_list"
                 THEN [acc EXCEPT !.arguments =
                          Some([j \in 1..Len(k.children) |-> k.children[j].text])]
                 ELSE acc)

\* a call table that keeps only the latest call site of a callee
PushCall_replace(calls, name, args) == insert(calls, name, <<args>>)

\* fn_calls.entry(name).or_insert_with(Vec::new).push(args)
PushCall(calls, name, args) ==
    insert(calls, name,
           (IF name \in DOMAIN calls THEN calls[name] ELSE <<>>) \o <<args>>)

\* a call rule that records a callee path even without an argument list
VisitExpr_nameOnly ==
    /\ Visit("CoreVerusVisitor::visit_expr")
    /\ LET found == ScanExpr(Top.node.children, 1,
                             [function_name |-> None, arguments |-> Some(<<>>)])
       IN  fn_calls' =
               IF found.function_name.some /\ found.arguments.some
               THEN PushCall(fn_calls, found.function_name.val,
                             found.arguments.val)
               ELSE fn_calls
    /\ DefaultVisitEffect
    /\ UNCHANGED <<fn_map, status>>
    /\ UNCHANGED Frame

VisitExpr ==
    /\ Visit("CoreVerusVisitor::visit_expr")
    /\ LET found == ScanExpr(Top.node.children, 1,
                             [function_name |-> None, arguments |-> None])
       IN  fn_calls' =
               IF found.function_name.some /\ found.arguments.some
               THEN PushCall(fn_calls, found.function_name.val,
                             found.arguments.val)
               ELSE fn_calls
    /\ DefaultVisitEffect
    /\ UNCHANGED <<fn_map, status>>
    /\ UNCHANGED Frame

\* an extraction wrapper that does not delegate to the reconstruction wrapper
CoreVisitVerusMacroUse_silent ==
    /\ Visit("CoreVerusVisitor::visit_verus_macro_use")
    /\ Enter(<<>>, VisitAllItems(Top.node.children, Top.path))
    /\ UNCHANGED <<fn_map, fn_calls, status>>
    /\ UNCHANGED Frame

CoreVisitVerusMacroUse ==
    /\ Visit("CoreVerusVisitor::visit_verus_macro_use")
    /\ MacroUseEffect
    /\ UNCHANGED <<fn_map, fn_calls, status>>
    /\ UNCHANGED Frame

(***************************************************************************)
(* The rest of a handler after a child returns, and the return itself.     *)
(***************************************************************************)
Emit ==
    /\ status = "running"
    /\ stack # <<>>
    /\ Top.op = "emit"
    /\ program' = program \o Top.text
    /\ stack' = Tail(stack)
    /\ UNCHANGED <<fn_map, fn_calls, status, spans>>
    /\ UNCHANGED Frame

Return ==
    /\ status = "running"
    /\ stack # <<>>
    /\ Top.op = "ret"
    /\ spans' = [spans EXCEPT ![Top.path].to = Len(program)]
    /\ stack' = Tail(stack)
    /\ UNCHANGED <<program, fn_map, fn_calls, status>>
    /\ UNCHANGED Frame

Finish ==
    /\ status = "running"
    /\ stack = <<>>
    /\ status' = "done"
    /\ UNCHANGED <<stack, program, fn_map, fn_calls, spans>>
    /\ UNCHANGED Frame

(***************************************************************************)
(* Invocations.  The first is an extraction; after it has handed back its  *)
(* accumulator a second one runs on a fresh accumulator: the extraction    *)
(* again, the reconstruction-only registry on the same pairs, or the       *)
(* extraction on the same list node without one of its comment children.   *)
(***************************************************************************)
StartWith(map, datum, ps) ==
    /\ handlers' = map
    /\ pairs' = ps
    /\ program' = datum.program
    /\ fn_map' = datum.fn_map
    /\ fn_calls' = datum.fn_calls
    /\ stack' = VisitAllItems(ps, <<>>)
    /\ spans' = EmptyMap
    /\ status' = "running"

\* an extraction that goes on with the accumulator of the invocation before
CoreVisitAll_reuse(datum, ps) ==
    /\ handlers' = create_combined_handler_map
    /\ pairs' = ps
    /\ UNCHANGED <<program, fn_map, fn_calls>>
    /\ stack' = VisitAllItems(ps, <<>>)
    /\ spans' = EmptyMap
    /\ status' = "running"

CoreVisitAll(datum, ps) == StartWith(create_combined_handler_map, datum, ps)

BaseVisitAll(datum, ps) == StartWith(HandlerMapNew, datum, ps)

HandedBack ==
    [pairs |-> pairs, program |-> program, fn_map |-> fn_map,
     fn_calls |-> fn_calls]

ListKinds == {"param_list", "arg_list", "comma_delimited_exprs"}

RemoveChild(node, i) ==
    [node EXCEPT !.children =
        [j \in 1..(Len(node.children) - 1) |->
            IF j < i THEN node.children[j] ELSE node.children[j + 1]]]

Extract ==
    /\ run = 0
    /\ status = "idle"
    /\ run' = 1
    /\ CoreVisitAll(EmptyDatum, pairs)
    /\ UNCHANGED <<variant, first>>

ExtractAgain ==
    /\ run = 1
    /\ status = "done"
    /\ run' = 2
    /\ variant' = "same"
    /\ first' = HandedBack
    /\ CoreVisitAll(EmptyDatum, pairs)

ReconstructOnly ==
    /\ run = 1
    /\ status = "done"
    /\ run' = 2
    /\ variant' = "base"
    /\ first' = HandedBack
    /\ BaseVisitAll(EmptyDatum, pairs)

ExtractWithoutComment ==
    /\ run = 1
    /\ status = "done"
    /\ Len(pairs) = 1
    /\ pairs[1].kind \in ListKinds
    /\ \E i \in 1..Len(pairs[1].children) :
          /\ pairs[1].children[i].kind = "COMMENT"
          /\ CoreVisitAll(EmptyDatum, <<RemoveChild(pairs[1], i)>>)
    /\ run' = 2
    /\ variant' = "drop"
    /\ first' = HandedBack

Next ==
    \/ Extract
    \/ ExtractAgain
    \/ ReconstructOnly
    \/ ExtractWithoutComment
    \/ DefaultVisit
    \/ VisitVerusMacroUse
    \/ VisitParamList
    \/ VisitFnBlockExpr
    \/ VisitClosureParamList
    \/ VisitCommaDelimitedExprs
    \/ VisitArgList
    \/ VisitComment
    \/ VisitFunction
    \/ VisitExpr
    \/ CoreVisitVerusMacroUse
    \/ Emit
    \/ Return
    \/ Finish

Spec == Init /\ [][Next]_vars


(***************************************************************************)
(* Observations on a traversal.                                            *)
(***************************************************************************)
RECURSIVE Descend(_, _)
Descend(node, p) ==
    IF p = <<>> THEN node ELSE Descend(node.children[Head(p)], Tail(p))

\* the node of the current input at path p
NodeAt(p) == Descend(pairs[Head(p)], Tail(p))

Visited == DOMAIN spans
Completed(p) == p \in DOMAIN spans /\ spans[p].to >= 0

\* the text appended between the entry of the visit of p and its return
Produced(p) == SubSeq(program, spans[p].from + 1, spans[p].to)

IsBelow(p, q) == Len(q) > Len(p) /\ SubSeq(q, 1, Len(p)) = p

\* p comes before q in a depth-first, left-to-right walk (parents first)
Before(p, q) ==
    \E k \in 1..Len(q) :
        /\ k <= Len(p) + 1
        /\ \A j \in 1..(k - 1) : p[j] = q[j]
        /\ (k = Len(p) + 1 \/ p[k] < q[k])

RECURSIVE InWalkOrder(_)
InWalkOrder(S) ==
    IF S = {} THEN <<>>
    ELSE LET m == CHOOSE p \in S : \A q \in S \ {p} : Before(p, q)
         IN  <<m>> \o InWalkOrder(S \ {m})

\* the children of p were visited one after the other and produced exactly
\* the buffer interval (a, b]
ChildrenTile(p, a, b) ==
    LET n == Len(NodeAt(p).children)
    IN  /\ \A i \in 1..n : Completed(p \o <<i>>)
        /\ IF n = 0 THEN a = b
           ELSE /\ spans[p \o <<1>>].from = a
                /\ \A i \in 1..(n - 1) :
                       spans[p \o <<i>>].to = spans[p \o <<i + 1>>].from
                /\ spans[p \o <<n>>].to = b

\* occurrences of the separator ", " in a text
Occurrences(text) ==
    Cardinality({i \in 1..(Len(text) - 1) : text[i] = "," /\ text[i + 1] = " "})

RECURSIVE SumTo(_, _)
SumTo(f, n) == IF n = 0 THEN 0 ELSE f[n] + SumTo(f, n - 1)

(***************************************************************************)
(* C1: for every parameter-list node the text visit_param_list appends is  *)
(* "(" + the children's raw slices in CST order joined by ", " + ")", with *)
(* no trailing comma, and none of its children is visited.                 *)
(***************************************************************************)
C1_ParamListCanonical ==
    \A p \in Visited :
        NodeAt(p).kind = "param_list" =>
            LET kids == NodeAt(p).children
                want == <<"(">>
                        \o Flatten([i \in 1..Len(kids) |->
                               IF i = Len(kids) THEN kids[i].text
                               ELSE kids[i].text \o <<",", " ">>])
                        \o <<")">>
            IN  /\ SubSeq(program, spans[p].from + 1,
                          spans[p].from + Len(want)) = want
                /\ Completed(p) => Produced(p) = want
                /\ \A q \in Visited : ~IsBelow(p, q)

\* a parameter list [a, b, c] whose source spacing differs from the output
C1_Witness ==
    \E p \in Visited :
        /\ NodeAt(p).kind = "param_list"
        /\ Completed(p)
        /\ Len(NodeAt(p).children) = 3
        /\ \E i \in 1..3 : NodeAt(p).children[i].children # <<>>
        /\ Produced(p) # NodeAt(p).text

(***************************************************************************)
(* C2 as stated: the output of a comma-delimited list with n children      *)
(* contains exactly n occurrences of ", ".                                 *)
(***************************************************************************)
C2_ExactlyNSeparators ==
    \A p \in Visited :
        (NodeAt(p).kind = "comma_delimited_exprs" /\ Completed(p)) =>
            Occurrences(Produced(p)) = Len(NodeAt(p).children)

(***************************************************************************)
(* C2 amended: the output of a comma-delimited list with n children is,    *)
(* for each child in order, the child's reconstruction followed by ", "    *)
(* (also after the last child); the rule appends exactly n separators, so  *)
(* the output holds n occurrences of ", " plus those inside the children's *)
(* own reconstructions.                                                    *)
(***************************************************************************)
C2_SeparatorAfterEachChild ==
    \A p \in Visited :
        (NodeAt(p).kind = "comma_delimited_exprs" /\ Completed(p)) =>
            LET n == Len(NodeAt(p).children)
                kid(i) == spans[p \o <<i>>]
            IN  /\ \A i \in 1..n :
                     /\ Completed(p \o <<i>>)
                     /\ kid(i).from = IF i = 1 THEN spans[p].from
                                      ELSE kid(i - 1).to + 2
                     /\ kid(i).to + 2 <= spans[p].to
                     /\ SubSeq(program, kid(i).to + 1, kid(i).to + 2)
                            = <<",", " ">>
                /\ spans[p].to = IF n = 0 THEN spans[p].from ELSE kid(n).to + 2
                /\ Occurrences(Produced(p))
                     = n + SumTo([i \in 1..n |->
                                     Occurrences(Produced(p \o <<i>>))], n)

\* a list of two or more children, one of which holds a nested list
C2_Witness ==
    \E p \in Visited :
        /\ NodeAt(p).kind = "comma_delimited_exprs"
        /\ Completed(p)
        /\ Len(NodeAt(p).children) >= 2
        /\ Occurrences(Produced(p)) > Len(NodeAt(p).children)

(***************************************************************************)
(* C3: a comment child of a parameter list, an argument list or a          *)
(* comma-delimited list contributes no character: the list produces the    *)
(* text it produces without that child.                                    *)
(***************************************************************************)
C3_CommentContributesNothing ==
    (run = 2 /\ variant = "drop" /\ status = "done") =>
        program = first.program


(***************************************************************************)
(* Call sites as the claims describe them.                                 *)
(***************************************************************************)
HasCalleePath(k) ==
    /\ k.kind = "expr_inner"
    /\ \E j \in 1..Len(k.children) :
          k.children[j].kind = "path_expr_no_generics"

\* an expr node with an expression-interior child holding a callee path and
\* an argument-list child
Recognized(n) ==
    /\ n.kind = "expr"
    /\ \E i \in 1..Len(n.children) : HasCalleePath(n.children[i])
    /\ \E i \in 1..Len(n.children) : n.children[i].kind = "arg_list"

LastIndex(kids, Test(_)) ==
    CHOOSE i \in 1..Len(kids) :
        Test(kids[i]) /\ \A j \in (i + 1)..Len(kids) : ~Test(kids[j])

IsPath(k) == k.kind = "path_expr_no_generics"
IsArgList(k) == k.kind = "arg_list"
IsArgument(k) == k.kind # "COMMENT"

CalleeOf(n) ==
    LET inner == n.children[LastIndex(n.children, HasCalleePath)]
    IN  SelectSeq(inner.children, IsPath)[1].text

ArgListOf(n) == n.children[LastIndex(n.children, IsArgList)]

TextsOf(kids) == [i \in 1..Len(kids) |-> kids[i].text]

\* the raw texts of the arguments of a call site, comments not being arguments
ArgumentsOf(n) == TextsOf(SelectSeq(ArgListOf(n).children, IsArgument))

\* the recognized call sites visited so far, in the order of the walk
Sites == InWalkOrder({p \in Visited : Recognized(NodeAt(p))})

SitesOf(c) ==
    LET IsCallTo(p) == CalleeOf(NodeAt(p)) = c
    IN  SelectSeq(Sites, IsCallTo)

Extracting == "expr" \in DOMAIN handlers /\ "fn" \in DOMAIN handlers

(***************************************************************************)
(* C4: for every callee c, fn_calls[c] is the sequence of the recognized   *)
(* call sites of c in the order they are visited (an enclosing call before *)
(* the calls in its arguments), each the raw texts of its arguments from   *)
(* left to right, one entry per argument.                                  *)
(***************************************************************************)
C4_CallSitesInOrder ==
    Extracting =>
        /\ DOMAIN fn_calls = {CalleeOf(NodeAt(p)) : p \in DOMAIN spans
                                                    \cap {q \in Visited : Recognized(NodeAt(q))}}
        /\ \A c \in DOMAIN fn_calls :
              fn_calls[c] = [i \in 1..Len(SitesOf(c)) |->
                                ArgumentsOf(NodeAt(SitesOf(c)[i]))]

\* what the code records for C4's call sites: one entry per child pair of
\* the argument list, comment pairs included
CallSitesWithEveryChild ==
    Extracting =>
        /\ DOMAIN fn_calls = {CalleeOf(NodeAt(p)) : p \in DOMAIN spans
                                                    \cap {q \in Visited : Recognized(NodeAt(q))}}
        /\ \A c \in DOMAIN fn_calls :
              fn_calls[c] = [i \in 1..Len(SitesOf(c)) |->
                                TextsOf(ArgListOf(NodeAt(SitesOf(c)[i])).children)]

(***************************************************************************)
(* C5: during an extraction fn_map holds, for every name N of a visited    *)
(* function definition, the full text of the definition named N that was   *)
(* visited last; nothing else is in fn_map, and definitions sharing a name *)
(* raise no error.                                                         *)
(***************************************************************************)
IsName(k) == k.kind = "name"
Named(n) == n.kind = "fn" /\ \E i \in 1..Len(n.children) : IsName(n.children[i])
Nameless(n) == n.kind = "fn" /\ \A i \in 1..Len(n.children) : ~IsName(n.children[i])
NameOf(n) == SelectSeq(n.children, IsName)[1].text

Definitions == {p \in Visited : Named(NodeAt(p))}

C5_LastDefinitionWins ==
    Extracting =>
        /\ DOMAIN fn_map = {NameOf(NodeAt(p)) : p \in Definitions}
        /\ \A p \in Definitions :
              (\A q \in Definitions :
                   NameOf(NodeAt(q)) = NameOf(NodeAt(p)) => (q = p \/ Before(q, p)))
              => fn_map[NameOf(NodeAt(p))] = NodeAt(p).text
        /\ status = "panicked" => \E p \in Visited : Nameless(NodeAt(p))

\* a completed extraction over two definitions of one name with two texts
C5_Witness ==
    /\ Extracting
    /\ status = "done"
    /\ \E p, q \in Definitions :
          /\ Before(q, p)
          /\ NameOf(NodeAt(q)) = NameOf(NodeAt(p))
          /\ NodeAt(q).text # NodeAt(p).text
          /\ fn_map[NameOf(NodeAt(p))] = NodeAt(p).text

(***************************************************************************)
(* C6: the output of visit_arg_list is one "(", then the reconstructions   *)
(* of all its children, each visited through the registry in CST order,    *)
(* then one ")", and nothing else.                                         *)
(***************************************************************************)
C6_ArgListWrapsChildren ==
    \A p \in Visited :
        (NodeAt(p).kind = "arg_list" /\ Completed(p)) =>
            /\ spans[p].to >= spans[p].from + 2
            /\ program[spans[p].from + 1] = "("
            /\ ChildrenTile(p, spans[p].from + 1, spans[p].to - 1)
            /\ program[spans[p].to] = ")"

\* an argument list of several children, one of them a nested call that the
\* extraction recorded
C6_Witness ==
    \E p \in Visited :
        /\ NodeAt(p).kind = "arg_list"
        /\ Completed(p)
        /\ Len(NodeAt(p).children) >= 2
        /\ \E i \in 1..Len(NodeAt(p).children) :
              /\ Recognized(NodeAt(p).children[i])
              /\ Extracting
              /\ Len(fn_calls[CalleeOf(NodeAt(p).children[i])]) >= 2

(***************************************************************************)
(* C7: when the extraction visits a function definition without a name     *)
(* child the traversal stops there: the step records nothing, no child of  *)
(* the node and no later node is visited, and the traversal never          *)
(* completes.                                                              *)
(***************************************************************************)
C7_StoppedAtNameless ==
    \A p \in Visited :
        (Extracting /\ Nameless(NodeAt(p))) =>
            /\ status = "panicked"
            /\ stack # <<>>
            /\ Top = VisitItem(NodeAt(p), p)
            /\ spans[p].to = -1
            /\ \A q \in Visited \ {p} : Before(q, p)

C7_NamelessIsFatal ==
    /\ []C7_StoppedAtNameless
    /\ [][(Visit("CoreVerusVisitor::visit_function") /\ Nameless(Top.node))
            => (status' = "panicked"
                /\ UNCHANGED <<program, fn_map, fn_calls, stack>>)]_vars
    /\ [][status # "panicked"]_vars

\* the traversal stopped with text in the buffer, a definition recorded and
\* a sibling after the nameless definition left unvisited
C7_Witness ==
    /\ status = "panicked"
    /\ program # <<>>
    /\ fn_map # EmptyMap
    /\ \E p \in Visited :
          /\ Nameless(NodeAt(p))
          /\ Len(p) >= 2
          /\ p[Len(p)] < Len(NodeAt(SubSeq(p, 1, Len(p) - 1)).children)

(***************************************************************************)
(* C8: an expr node without a callee path or without an argument list      *)
(* leaves fn_calls and fn_map unchanged and raises no error; and for every *)
(* expr node the text appended is the Default Rule's: the slice and one    *)
(* space for a node without children, else the children's reconstructions. *)
(***************************************************************************)
C8_DefaultText ==
    \A p \in Visited :
        (Extracting /\ NodeAt(p).kind = "expr" /\ Completed(p)) =>
            IF NodeAt(p).children = <<>>
            THEN Produced(p) = NodeAt(p).text \o <<" ">>
            ELSE ChildrenTile(p, spans[p].from, spans[p].to)

C8_SilentSkip ==
    /\ []C8_DefaultText
    /\ [][(Visit("CoreVerusVisitor::visit_expr") /\ ~Recognized(Top.node))
            => (fn_calls' = fn_calls /\ fn_map' = fn_map
                /\ status' = "running")]_vars

\* a completed extraction that visited an expr with a callee path and no
\* argument list, and one with an argument list and no callee path
C8_Witness ==
    /\ Extracting
    /\ status = "done"
    /\ \E p, q \in Visited :
          /\ NodeAt(p).kind = "expr" /\ NodeAt(q).kind = "expr"
          /\ \E i \in 1..Len(NodeAt(p).children) :
                HasCalleePath(NodeAt(p).children[i])
          /\ ~Recognized(NodeAt(p))
          /\ \E i \in 1..Len(NodeAt(q).children) :
                IsArgList(NodeAt(q).children[i])
          /\ ~Recognized(NodeAt(q))
    /\ \A c \in DOMAIN fn_calls : c # <<"x">>

C10_SameTextAsReconstruction ==
    (run = 2 /\ variant = "base" /\ status = "done") =>
        /\ pairs = first.pairs
        /\ program = first.program

\* a reconstruction completed on a macro block whose extraction recorded a
\* definition and a call
C10_Witness ==
    /\ run = 2 /\ variant = "base" /\ status = "done"
    /\ pairs[1].kind = "verus_macro_use"
    /\ first.fn_map # EmptyMap
    /\ first.fn_calls # EmptyMap
    /\ fn_map = EmptyMap


(***************************************************************************)
(* Subtrees without a registered rule.                                     *)
(***************************************************************************)
Unregistered(kind) == kind \notin DOMAIN handlers

RECURSIVE RuleFree(_)
RuleFree(n) ==
    /\ Unregistered(n.kind)
    /\ \A i \in 1..Len(n.children) : RuleFree(n.children[i])

\* the slices of the leaves of a subtree, from left to right
RECURSIVE LeavesOf(_)
LeavesOf(n) ==
    IF n.children = <<>> THEN <<n.text>>
    ELSE Flatten([i \in 1..Len(n.children) |-> LeavesOf(n.children[i])])

(***************************************************************************)
(* C11: a node whose kind has no registered rule gets the Default Rule: a  *)
(* node without children appends its slice and one space, a node with      *)
(* children appends nothing of its own and has its children visited in CST *)
(* order; so a subtree without any registered kind produces its leaves'    *)
(* slices from left to right, each followed by one space.                  *)
(***************************************************************************)
C11_DefaultRule ==
    \A p \in Visited :
        (status # "idle" /\ Unregistered(NodeAt(p).kind) /\ Completed(p)) =>
            /\ IF NodeAt(p).children = <<>>
               THEN Produced(p) = NodeAt(p).text \o <<" ">>
               ELSE ChildrenTile(p, spans[p].from, spans[p].to)
            /\ RuleFree(NodeAt(p)) =>
                  LET leaves == LeavesOf(NodeAt(p))
                  IN  Produced(p) = Flatten([i \in 1..Len(leaves) |->
                                                leaves[i] \o <<" ">>])

\* a rule-free subtree of several leaves at different depths, whose source
\* spacing differs from the output
C11_Witness ==
    \E p \in Visited :
        /\ Completed(p)
        /\ RuleFree(NodeAt(p))
        /\ Len(LeavesOf(NodeAt(p))) >= 3
        /\ \E i \in 1..Len(NodeAt(p).children) :
              /\ NodeAt(p).children[i].children # <<>>
              /\ NodeAt(p).children[i].children[1].children # <<>>
        /\ Produced(p) # NodeAt(p).text


(***************************************************************************)
(* C12: within one traversal the accumulator only grows.  At every step    *)
(* the old program buffer is a prefix of the new one, no key leaves fn_map *)
(* or fn_calls, and every callee's old sequence of call sites is a prefix  *)
(* of its new one; only the function-definition rule changes fn_map and    *)
(* only the call-expression rule changes fn_calls.                         *)
(***************************************************************************)
IsPrefix(s, t) == Len(s) <= Len(t) /\ SubSeq(t, 1, Len(s)) = s

C12_Grows ==
    /\ IsPrefix(program, program')
    /\ DOMAIN fn_map \subseteq DOMAIN fn_map'
    /\ DOMAIN fn_calls \subseteq DOMAIN fn_calls'
    /\ \A c \in DOMAIN fn_calls :
          c \in DOMAIN fn_calls' /\ IsPrefix(fn_calls[c], fn_calls'[c])
    /\ fn_map' # fn_map => Visit("CoreVerusVisitor::visit_function")
    /\ fn_calls' # fn_calls => Visit("CoreVerusVisitor::visit_expr")

C12_AccumulatorOnlyGrows == [][run' = run => C12_Grows]_vars

\* mid-traversal: text in the buffer, a definition recorded and a callee
\* with a second call site appended to its first
C12_Witness ==
    /\ status = "running"
    /\ program # <<>>
    /\ fn_map # EmptyMap
    /\ \E c \in DOMAIN fn_calls : Len(fn_calls[c]) >= 2

====
